---- MODULE Spec2Model ----
(***************************************************************************)
(* A model of pypubcontrol's ZmqPubControlClient (zmqpubcontrolclient.py)  *)
(* and ZmqSubMonitor (zmqsubmonitor.py).                                   *)
(* The objects' attributes are the state; every method is broken into the  *)
(* steps between which another thread can run (the lock operations, the    *)
(* unlocked reads of _zmq_sock, each socket operation that can raise).     *)
(* Program counters are named after the source line they stand at.         *)
(***************************************************************************)
EXTENDS Integers, Sequences, FiniteSets, TLC

\* ------------------------------------------------------------- bounds
NThreads == 2
MaxCalls == 3
MaxSets == 1
MaxFrames == 3

Threads == 1..NThreads

\* ------------------------------------------------------------- values
None == "None"
PushUri == "tcp://push"
PubUri == "tcp://pub"

Bytes(s) == [kind |-> "bytes", b |-> s, d |-> <<>>]
Text(s) == [kind |-> "text", b |-> s, d |-> <<>>]
Dict(pairs) == [kind |-> "dict", b |-> <<>>, d |-> pairs]

\* b'channel', the key line 113 stores the channel under
ChannelKey == Bytes(<<99, 104, 97, 110, 110, 101, 108>>)

\* the channel arguments publish() is called with: u'\xe9' and b'a'
Channels == {Text(<<233>>), Bytes(<<97>>)}

\* the envelopes item.export(True, True) returns, as insertion-ordered
\* sequences of <<key, value>>: {b'id': b'1'} and
\* {b'channel': b'z', b'formats': {b'h': b'x'}}
Items ==
  { Dict(<< <<Bytes(<<105, 100>>), Bytes(<<49>>)>> >>),
    Dict(<< <<ChannelKey, Bytes(<<122>>)>>,
            <<Bytes(<<102>>), Dict(<< <<Bytes(<<104>>), Bytes(<<120>>)>> >>)>> >>) }

\* ------------------------------------------------------------- state
VARIABLES
  zmq_push_uri,           \* self.zmq_push_uri: None or a URI
  zmq_pub_uri,            \* self.zmq_pub_uri: None or a URI
  require_subscriptions,  \* self.require_subscriptions
  disable_pub,            \* self.disable_pub
  zmq_ctx,                \* self._zmq_ctx
  lock,                   \* self._lock: TRUE while some thread holds it
  zmq_sock,               \* self._zmq_sock: 0 for None, else an index of sockets
  sockets,                \* every socket self._zmq_ctx.socket() has returned
  client,                 \* "constructing", "ready" or "failed" (__init__ raised)
  op,                     \* the method each thread is in
  pc,                     \* the line each thread stands at
  args,                   \* publish()'s arguments, per thread
  result,                 \* how each thread's call ended
  events,                 \* what each thread's call has done so far, in order
  calls,                  \* the calls started so far
  sets,                   \* the attribute assignments made so far
  mon_pc,                 \* the line the monitor's thread stands at
  mon_socket,             \* the monitor's self._socket: an index of sockets, 0 before
  subscriptions,          \* the monitor's self.subscriptions, a list
  m,                      \* the frame the monitor received last
  inbox,                  \* the control frames waiting on the monitor's socket
  mon_log,                \* what the monitor has received and called back, in order
  arrived                 \* the control frames that have arrived so far

cfgVars == <<zmq_push_uri, zmq_pub_uri, require_subscriptions, disable_pub, zmq_ctx>>
sockVars == <<lock, zmq_sock, sockets>>
thrVars == <<client, op, pc, args, result, events, calls>>
monVars == <<mon_pc, mon_socket, subscriptions, m, inbox, mon_log, arrived>>
vars == <<cfgVars, sockVars, thrVars, sets, monVars>>

NoArgs == [channel |-> Bytes(<<>>), item |-> Dict(<<>>), blocking |-> FALSE, callback |-> FALSE]

\* ------------------------------------------------------------- helpers
\* utilities._ensure_utf8: a text channel is encoded as UTF-8, bytes are kept
RECURSIVE Utf8(_)
Utf8(s) ==
  IF s = <<>> THEN <<>>
  ELSE LET c == Head(s) IN
       (IF c < 128 THEN <<c>>
        ELSE <<192 + (c \div 64), 128 + (c % 64)>>) \o Utf8(Tail(s))

ensure_utf8(value) ==
  IF value.kind = "text" THEN Bytes(Utf8(value.b)) ELSE value

\* the decimal digits of n, as ASCII bytes
RECURSIVE Digits(_)
Digits(n) ==
  IF n < 10 THEN <<48 + n>> ELSE Digits(n \div 10) \o <<48 + (n % 10)>>

\* tnetstring.dumps: <length>:<payload><type>, ',' for bytes and '}' for a
\* mapping, whose payload is its keys and values dumped in order
RECURSIVE DumpsPairs(_), dumps(_)
DumpsPairs(pairs) ==
  IF pairs = <<>> THEN <<>>
  ELSE dumps(Head(pairs)[1]) \o dumps(Head(pairs)[2]) \o DumpsPairs(Tail(pairs))

dumps(v) ==
  LET payload == IF v.kind = "dict" THEN DumpsPairs(v.d) ELSE v.b
  IN Digits(Len(payload)) \o <<58>> \o payload \o
     (IF v.kind = "dict" THEN <<125>> ELSE <<44>>)

\* content[key] = value on a Python dict: an existing key keeps its place
SetItem(content, key, value) ==
  IF \E i \in 1..Len(content.d) : content.d[i][1] = key
  THEN Dict([i \in 1..Len(content.d) |->
               IF content.d[i][1] = key THEN <<key, value>> ELSE content.d[i]])
  ELSE Dict(Append(content.d, <<key, value>>))

\* ------------------------------------------------------------- _verify_uri_config
\* a validation without the check of lines 104-106
verify_uri_config_102 ==
  IF zmq_pub_uri = None /\ zmq_push_uri = None THEN "ValueError" ELSE "ok"

verify_uri_config ==
  IF zmq_pub_uri = None /\ zmq_push_uri = None THEN "ValueError"
  ELSE IF zmq_pub_uri = None /\ require_subscriptions THEN "ValueError"
  ELSE "ok"

\* ------------------------------------------------------------- connect_zmq's choice
\* a choice that does not read disable_pub
XPubChosenDespiteDisable ==
  zmq_pub_uri # None /\ (zmq_push_uri = None \/ require_subscriptions)

\* the condition of the if at lines 88-89
XPubChosen ==
  zmq_pub_uri # None /\ ~disable_pub /\ (zmq_push_uri = None \/ require_subscriptions)

\* a choice that does not read require_subscriptions
PushChosenDespiteRequire ==
  zmq_push_uri # None

\* the condition of the elif at line 93
PushChosen ==
  zmq_push_uri # None /\ ~require_subscriptions

\* a choice that keeps the type of the socket the client had before close()
SocketTypeRemembered ==
  IF sockets # <<>> THEN sockets[Len(sockets)].socket_type
  ELSE IF XPubChosen THEN "XPUB" ELSE IF PushChosen THEN "PUSH" ELSE None

SocketType ==
  IF XPubChosen THEN "XPUB" ELSE IF PushChosen THEN "PUSH" ELSE None

NewSocket(type) == [socket_type |-> type, closed |-> FALSE, endpoint |-> None, linger |-> -1]

\* ------------------------------------------------------------- ends of a call
\* the call of thread t ends with res: "ok" on return, else the exception
Finish(t, res) ==
  /\ pc' = [pc EXCEPT ![t] = "done"]
  /\ result' = [result EXCEPT ![t] = res]
  /\ client' = IF op[t] = "init" THEN (IF res = "ok" THEN "ready" ELSE "failed")
               ELSE client

Goto(t, line) ==
  /\ pc' = [pc EXCEPT ![t] = line]
  /\ UNCHANGED <<result, client>>

Record(t, e) == events' = [events EXCEPT ![t] = Append(@, e)]

\* what a call can do: create a socket, send a message, close the socket,
\* invoke the callback
SocketEvent(sock) ==
  [e |-> "socket", sock |-> sock, frames |-> <<>>, success |-> FALSE, message |-> ""]

SendEvent(sock, frames) ==
  [e |-> "send", sock |-> sock, frames |-> frames, success |-> FALSE, message |-> ""]

CloseEvent(sock) ==
  [e |-> "close", sock |-> sock, frames |-> <<>>, success |-> FALSE, message |-> ""]

CallbackEvent(success, message) ==
  [e |-> "callback", sock |-> 0, frames |-> <<>>, success |-> success, message |-> message]

\* ------------------------------------------------------------- __init__
Init ==
  /\ zmq_push_uri \in {None, PushUri}
  /\ zmq_pub_uri \in {None, PubUri}
  /\ require_subscriptions \in BOOLEAN
  /\ disable_pub \in BOOLEAN
  /\ zmq_ctx \in {"Context.instance", "zmq_context"}
  /\ lock = FALSE
  /\ zmq_sock = 0
  /\ sockets = <<>>
  /\ client = "constructing"
  /\ op = [t \in Threads |-> IF t = 1 THEN "init" ELSE "none"]
  /\ pc = [t \in Threads |-> IF t = 1 THEN "i51" ELSE "idle"]
  /\ args = [t \in Threads |-> NoArgs]
  /\ result = [t \in Threads |-> IF t = 1 THEN "running" ELSE "none"]
  /\ events = [t \in Threads |-> <<>>]
  /\ calls = 0
  /\ sets = 0
  /\ mon_pc = "none"
  /\ mon_socket = 0
  /\ subscriptions = <<>>
  /\ m = <<>>
  /\ inbox = <<>>
  /\ mon_log = <<>>
  /\ arrived = 0

\* lines 51-52: connect eagerly if a transport URI was given
init_51(t) ==
  /\ pc[t] = "i51"
  /\ IF zmq_push_uri # None \/ zmq_pub_uri # None
     THEN Goto(t, "c85")
     ELSE Finish(t, "ok")
  /\ UNCHANGED <<cfgVars, sockVars, op, args, events, calls, sets, monVars>>

\* ------------------------------------------------------------- connect_zmq
\* line 85
connect_85(t) ==
  /\ pc[t] = "c85"
  /\ IF verify_uri_config = "ok" THEN Goto(t, "c86") ELSE Finish(t, verify_uri_config)
  /\ UNCHANGED <<cfgVars, sockVars, op, args, events, calls, sets, monVars>>

\* a connect that goes on without the lock
connect_86_unlocked(t) ==
  /\ pc[t] = "c86"
  /\ Goto(t, "c87")
  /\ UNCHANGED <<cfgVars, sockVars, op, args, events, calls, sets, monVars>>

\* line 86: self._lock.acquire() blocks while the lock is held
connect_86(t) ==
  /\ pc[t] = "c86"
  /\ lock = FALSE
  /\ lock' = TRUE
  /\ Goto(t, "c87")
  /\ UNCHANGED <<cfgVars, zmq_sock, sockets, op, args, events, calls, sets, monVars>>

\* a connect that does not look at the handle it has
connect_87_reconnects(t) ==
  /\ pc[t] = "c87"
  /\ Goto(t, "c88")
  /\ UNCHANGED <<cfgVars, sockVars, op, args, events, calls, sets, monVars>>

\* line 87
connect_87(t) ==
  /\ pc[t] = "c87"
  /\ Goto(t, IF zmq_sock = 0 THEN "c88" ELSE "c97")
  /\ UNCHANGED <<cfgVars, sockVars, op, args, events, calls, sets, monVars>>

\* lines 88-90 and 93-94: choose the socket type, create the socket and store it;
\* self._zmq_ctx.socket() can raise, and then the lock stays held
connect_88(t) ==
  /\ pc[t] = "c88"
  /\ IF SocketType = None
     THEN /\ Goto(t, "c97")
          /\ UNCHANGED <<zmq_sock, sockets, events>>
     ELSE \E fault \in BOOLEAN :
            IF fault
            THEN /\ Finish(t, "ZMQError:socket")
                 /\ UNCHANGED <<zmq_sock, sockets, events>>
            ELSE /\ sockets' = Append(sockets, NewSocket(SocketType))
                 /\ zmq_sock' = Len(sockets) + 1
                 /\ Record(t, SocketEvent(Len(sockets) + 1))
                 /\ Goto(t, "c91")
  /\ UNCHANGED <<cfgVars, lock, op, args, calls, sets, monVars>>

\* the URI lines 91 and 95 read when they connect
ConnectUri(sock) ==
  IF sockets[sock].socket_type = "XPUB" THEN zmq_pub_uri ELSE zmq_push_uri

\* lines 91 and 95: connect() raises on a fault or on a URI that is None by now,
\* and then the socket stays in self._zmq_sock and the lock stays held
connect_91(t) ==
  /\ pc[t] = "c91"
  /\ \E fault \in BOOLEAN :
       IF zmq_sock = 0 \/ fault
       THEN /\ Finish(t, IF zmq_sock = 0 THEN "AttributeError" ELSE "ZMQError:connect")
            /\ UNCHANGED sockets
       ELSE IF ConnectUri(zmq_sock) = None
       THEN /\ Finish(t, "TypeError:connect")
            /\ UNCHANGED sockets
       ELSE /\ sockets' = [sockets EXCEPT ![zmq_sock].endpoint = ConnectUri(zmq_sock)]
            /\ Goto(t, "c92")
  /\ UNCHANGED <<cfgVars, lock, zmq_sock, op, args, events, calls, sets, monVars>>

\* lines 92 and 96
connect_92(t) ==
  /\ pc[t] = "c92"
  /\ IF zmq_sock = 0
     THEN /\ Finish(t, "AttributeError")
          /\ UNCHANGED sockets
     ELSE /\ sockets' = [sockets EXCEPT ![zmq_sock].linger = 0]
          /\ Goto(t, "c97")
  /\ UNCHANGED <<cfgVars, lock, zmq_sock, op, args, events, calls, sets, monVars>>

\* line 97, and the return to the caller: publish() goes on at line 61
connect_97(t) ==
  /\ pc[t] = "c97"
  /\ lock' = FALSE
  /\ IF op[t] = "publish" THEN Goto(t, "p61") ELSE Finish(t, "ok")
  /\ UNCHANGED <<cfgVars, zmq_sock, sockets, op, args, events, calls, sets, monVars>>

\* ------------------------------------------------------------- publish
\* lines 61-66: without a socket the callback is called and publish returns;
\* with one the item is exported and the channel encoded (both local)
publish_61(t) ==
  /\ pc[t] = "p61"
  /\ IF zmq_sock = 0
     THEN /\ IF args[t].callback
             THEN Record(t, CallbackEvent(TRUE, ""))
             ELSE UNCHANGED events
          /\ Finish(t, "ok")
     ELSE /\ Goto(t, "s111")
          /\ UNCHANGED events
  /\ UNCHANGED <<cfgVars, sockVars, op, args, calls, sets, monVars>>

\* a publish that reports only a non-blocking call to its callback
publish_68_unless_blocking(t) ==
  /\ pc[t] = "p68"
  /\ IF args[t].callback /\ ~args[t].blocking
     THEN Record(t, CallbackEvent(TRUE, ""))
     ELSE UNCHANGED events
  /\ Finish(t, "ok")
  /\ UNCHANGED <<cfgVars, sockVars, op, args, calls, sets, monVars>>

\* lines 68-69
publish_68(t) ==
  /\ pc[t] = "p68"
  /\ IF args[t].callback
     THEN Record(t, CallbackEvent(TRUE, ""))
     ELSE UNCHANGED events
  /\ Finish(t, "ok")
  /\ UNCHANGED <<cfgVars, sockVars, op, args, calls, sets, monVars>>

\* ------------------------------------------------------------- _send_to_zmq
\* line 111
send_111(t) ==
  /\ pc[t] = "s111"
  /\ lock = FALSE
  /\ lock' = TRUE
  /\ Goto(t, "s112")
  /\ UNCHANGED <<cfgVars, zmq_sock, sockets, op, args, events, calls, sets, monVars>>

\* a send that frames a PUSH message the way an XPUB message is framed
FramesAlwaysMultipart(socket_type, content, channel) ==
  <<channel.b, dumps(content)>>

\* lines 112-116: the frames handed to send() or send_multipart()
Frames(socket_type, content, channel) ==
  IF socket_type = "PUSH"
  THEN <<dumps(SetItem(content, ChannelKey, channel))>>
  ELSE <<channel.b, dumps(content)>>

\* lines 112-116: self._zmq_sock.socket_type raises when the handle is None by
\* now, a send on a closed socket or a transport fault raises; the lock stays held
send_112(t) ==
  /\ pc[t] = "s112"
  /\ \E fault \in BOOLEAN :
       IF zmq_sock = 0
       THEN /\ Finish(t, "AttributeError")
            /\ UNCHANGED events
       ELSE IF sockets[zmq_sock].closed \/ fault
       THEN /\ Finish(t, "ZMQError:send")
            /\ UNCHANGED events
       ELSE /\ Record(t, SendEvent(zmq_sock,
                    Frames(sockets[zmq_sock].socket_type, args[t].item,
                           ensure_utf8(args[t].channel))))
            /\ Goto(t, "s117")
  /\ UNCHANGED <<cfgVars, sockVars, op, args, calls, sets, monVars>>

\* line 117
send_117(t) ==
  /\ pc[t] = "s117"
  /\ lock' = FALSE
  /\ Goto(t, "p68")
  /\ UNCHANGED <<cfgVars, zmq_sock, sockets, op, args, events, calls, sets, monVars>>

\* ------------------------------------------------------------- close
\* line 74
close_74(t) ==
  /\ pc[t] = "x74"
  /\ lock = FALSE
  /\ lock' = TRUE
  /\ Goto(t, "x75")
  /\ UNCHANGED <<cfgVars, zmq_sock, sockets, op, args, events, calls, sets, monVars>>

\* lines 75-76
close_75(t) ==
  /\ pc[t] = "x75"
  /\ IF zmq_sock # 0
     THEN /\ sockets' = [sockets EXCEPT ![zmq_sock].closed = TRUE]
          /\ Record(t, CloseEvent(zmq_sock))
          /\ Goto(t, "x77")
     ELSE /\ UNCHANGED <<sockets, events>>
          /\ Goto(t, "x78")
  /\ UNCHANGED <<cfgVars, lock, zmq_sock, op, args, calls, sets, monVars>>

\* a close that also drops the context, as the comment of lines 71-72 has it
close_77_drops_context(t) ==
  /\ pc[t] = "x77"
  /\ zmq_sock' = 0
  /\ zmq_ctx' = None
  /\ Goto(t, "x78")
  /\ UNCHANGED <<zmq_push_uri, zmq_pub_uri, require_subscriptions, disable_pub,
                 lock, sockets, op, args, events, calls, sets, monVars>>

\* line 77
close_77(t) ==
  /\ pc[t] = "x77"
  /\ zmq_sock' = 0
  /\ Goto(t, "x78")
  /\ UNCHANGED <<cfgVars, lock, sockets, op, args, events, calls, sets, monVars>>

\* line 78
close_78(t) ==
  /\ pc[t] = "x78"
  /\ lock' = FALSE
  /\ Finish(t, "ok")
  /\ UNCHANGED <<cfgVars, zmq_sock, sockets, op, args, events, calls, sets, monVars>>

\* ------------------------------------------------------------- the callers
\* a thread that is in no call starts one on the constructed client
Start(t, method, line, a) ==
  /\ client = "ready"
  /\ pc[t] \in {"idle", "done"}
  /\ calls < MaxCalls
  /\ calls' = calls + 1
  /\ op' = [op EXCEPT ![t] = method]
  /\ pc' = [pc EXCEPT ![t] = line]
  /\ args' = [args EXCEPT ![t] = a]
  /\ result' = [result EXCEPT ![t] = "running"]
  /\ events' = [events EXCEPT ![t] = <<>>]
  /\ UNCHANGED <<cfgVars, sockVars, client, sets, monVars>>

call_connect_zmq(t) == Start(t, "connect_zmq", "c85", NoArgs)

\* what publish() can be called with
PublishArgs == [channel : Channels, item : Items, blocking : BOOLEAN, callback : BOOLEAN]

\* the one message the concurrent callers publish, with a callback
ThreadedArgs ==
  {a \in PublishArgs :
     a.channel.kind = "text" /\ Len(a.item.d) = 1 /\ ~a.blocking /\ a.callback}

\* line 60: publish() starts with connect_zmq()
publish_60(t, a) == Start(t, "publish", "c85", a)

call_publish(t) == \E a \in PublishArgs : publish_60(t, a)

threaded_publish(t) == \E a \in ThreadedArgs : publish_60(t, a)

call_close(t) == Start(t, "close", "x74", NoArgs)

\* the attributes of lines 41-44 are public: a caller assigns one of them
set_attribute ==
  /\ client = "ready"
  /\ sets < MaxSets
  /\ sets' = sets + 1
  /\ \/ /\ zmq_push_uri' = IF zmq_push_uri = None THEN PushUri ELSE None
        /\ UNCHANGED <<zmq_pub_uri, require_subscriptions, disable_pub>>
     \/ /\ zmq_pub_uri' = IF zmq_pub_uri = None THEN PubUri ELSE None
        /\ UNCHANGED <<zmq_push_uri, require_subscriptions, disable_pub>>
     \/ /\ require_subscriptions' = ~require_subscriptions
        /\ UNCHANGED <<zmq_push_uri, zmq_pub_uri, disable_pub>>
     \/ /\ disable_pub' = ~disable_pub
        /\ UNCHANGED <<zmq_push_uri, zmq_pub_uri, require_subscriptions>>
  /\ UNCHANGED <<zmq_ctx, sockVars, thrVars, monVars>>

\* ------------------------------------------------------------- the system
\* a step of a call that thread t is in
Run(t) ==
  \/ init_51(t)
  \/ connect_85(t)
  \/ connect_86(t)
  \/ connect_87(t)
  \/ connect_88(t)
  \/ connect_91(t)
  \/ connect_92(t)
  \/ connect_97(t)
  \/ publish_61(t)
  \/ publish_68(t)
  \/ send_111(t)
  \/ send_112(t)
  \/ send_117(t)
  \/ close_74(t)
  \/ close_75(t)
  \/ close_77(t)
  \/ close_78(t)

\* several threads call into one client, configured as it was constructed
Next ==
  \/ \E t \in Threads :
       Run(t) \/ call_connect_zmq(t) \/ threaded_publish(t) \/ call_close(t)

\* the threads' client is built on the global context
ThreadedInit == Init /\ zmq_ctx = "Context.instance"

Spec == ThreadedInit /\ [][Next]_vars

\* one thread calls into the client, with every argument publish() can get,
\* and assigns attributes between (and during) the calls
CallerNext ==
  \/ Run(1)
  \/ call_connect_zmq(1)
  \/ call_publish(1)
  \/ call_close(1)
  \/ set_attribute

CallerSpec == Init /\ [][CallerNext]_vars

\* ------------------------------------------------------------- ZmqSubMonitor
\* the channels that peers subscribe to ("a" and "b"), and the control frames
\* an XPUB socket delivers: a byte 1 (subscribe) or 0 (unsubscribe), then the
\* channel
SubChannels == {<<97>>, <<98>>}

ControlFrames == {<<mark>> \o c : mark \in {0, 1}, c \in SubChannels}

RecvEvent(frame) == [e |-> "recv", kind |-> "", item |-> frame]

NotifyEvent(kind, item) == [e |-> "callback", kind |-> kind, item |-> item]

\* the states in which the monitor's thread has ended: by the return of line 40
\* or by an exception that left _monitor
MonitorEnded == {"returned", "raised"}

\* ZmqSubMonitor(client._zmq_sock, client._lock, callback): lines 22-29 bind the
\* socket object and the lock and start the thread, lines 36-37 register the
\* socket with the poller
monitor_init ==
  /\ mon_pc = "none"
  /\ client = "ready"
  /\ zmq_sock # 0
  /\ sockets[zmq_sock].socket_type = "XPUB"
  /\ mon_socket' = zmq_sock
  /\ subscriptions' = <<>>
  /\ mon_pc' = "m39"
  /\ UNCHANGED <<cfgVars, sockVars, thrVars, sets, m, inbox, mon_log, arrived>>

\* a peer subscribes or unsubscribes: a control frame arrives on the open socket
control_frame ==
  /\ mon_pc \notin MonitorEnded \cup {"none"}
  /\ ~sockets[mon_socket].closed
  /\ arrived < MaxFrames
  /\ arrived' = arrived + 1
  /\ \E frame \in ControlFrames : inbox' = Append(inbox, frame)
  /\ UNCHANGED <<cfgVars, sockVars, thrVars, sets,
                 mon_pc, mon_socket, subscriptions, m, mon_log>>

\* lines 39-40, read without the lock
mon_39 ==
  /\ mon_pc = "m39"
  /\ mon_pc' = IF sockets[mon_socket].closed THEN "returned" ELSE "m42"
  /\ UNCHANGED <<cfgVars, sockVars, thrVars, sets,
                 mon_socket, subscriptions, m, inbox, mon_log, arrived>>

\* lines 42-43, without the lock: poll() waits until a frame is there. On a
\* socket that another thread closed, before or during the wait, poll() either
\* returns without POLLIN for it (and the loop goes back to line 39) or raises
\* ZMQError out of the thread.
mon_42 ==
  /\ mon_pc = "m42"
  /\ IF sockets[mon_socket].closed
     THEN mon_pc' \in {"m39", "raised"}
     ELSE inbox # <<>> /\ mon_pc' = "m44"
  /\ UNCHANGED <<cfgVars, sockVars, thrVars, sets,
                 mon_socket, subscriptions, m, inbox, mon_log, arrived>>

\* a monitor that goes on to receive without taking the lock
mon_44_unlocked ==
  /\ mon_pc = "m44"
  /\ mon_pc' = "m45"
  /\ UNCHANGED <<cfgVars, sockVars, thrVars, sets,
                 mon_socket, subscriptions, m, inbox, mon_log, arrived>>

\* line 44
mon_44 ==
  /\ mon_pc = "m44"
  /\ lock = FALSE
  /\ lock' = TRUE
  /\ mon_pc' = "m45"
  /\ UNCHANGED <<cfgVars, zmq_sock, sockets, thrVars, sets,
                 mon_socket, subscriptions, m, inbox, mon_log, arrived>>

\* a monitor that takes every waiting frame off the socket and keeps the last
mon_45_drains ==
  /\ mon_pc = "m45"
  /\ \E fault \in BOOLEAN :
       IF sockets[mon_socket].closed \/ fault
       THEN /\ mon_pc' = "raised"
            /\ UNCHANGED <<m, inbox, mon_log>>
       ELSE /\ inbox # <<>>
            /\ m' = inbox[Len(inbox)]
            /\ inbox' = <<>>
            /\ mon_log' = mon_log \o [i \in 1..Len(inbox) |-> RecvEvent(inbox[i])]
            /\ mon_pc' = "m46"
  /\ UNCHANGED <<cfgVars, sockVars, thrVars, sets, mon_socket, subscriptions, arrived>>

\* line 45: recv() takes the first waiting frame; it raises on a fault and on
\* a socket that is closed by now, and then the lock stays held
mon_45 ==
  /\ mon_pc = "m45"
  /\ \E fault \in BOOLEAN :
       IF sockets[mon_socket].closed \/ fault
       THEN /\ mon_pc' = "raised"
            /\ UNCHANGED <<m, inbox, mon_log>>
       ELSE /\ inbox # <<>>
            /\ m' = Head(inbox)
            /\ inbox' = Tail(inbox)
            /\ mon_log' = Append(mon_log, RecvEvent(Head(inbox)))
            /\ mon_pc' = "m46"
  /\ UNCHANGED <<cfgVars, sockVars, thrVars, sets, mon_socket, subscriptions, arrived>>

\* line 46, m[0], and line 47, m[1:]; recv() returns a byte string, whose
\* first element lines 48 and 52 compare with '\x01' and '\x00'
frame_type(frame) == frame[1]

frame_item(frame) == SubSeq(frame, 2, Len(frame))

\* item in self.subscriptions
Known(item) == \E i \in 1..Len(subscriptions) : subscriptions[i] = item

\* a subscribe that is notified whether or not the channel is known
SubNotifiesAlways(item) == TRUE

\* line 49
SubNotifies(item) == ~Known(item)

\* an unsubscribe that is notified only for a known channel
UnsubNotifiesIfKnown(item) == Known(item)

\* line 55 stands outside the test of line 53
UnsubNotifies(item) == TRUE

\* a removal that leaves the list as it is
RemoveNothing(list, item) == list

\* list.remove(item): the first occurrence goes
Remove(list, item) ==
  LET i == CHOOSE i \in 1..Len(list) :
             list[i] = item /\ \A j \in 1..(i - 1) : list[j] # item
  IN  SubSeq(list, 1, i - 1) \o SubSeq(list, i + 1, Len(list))

\* lines 46-55, with the lock held: an exception of the callback leaves the
\* thread, before line 51 appends and with the lock held
mon_46 ==
  /\ mon_pc = "m46"
  /\ LET mtype == frame_type(m)
         item == frame_item(m)
     IN  IF mtype = 1
         THEN IF SubNotifies(item)
              THEN \E fault \in BOOLEAN :
                     /\ mon_log' = Append(mon_log, NotifyEvent("sub", item))
                     /\ IF fault
                        THEN mon_pc' = "raised" /\ UNCHANGED subscriptions
                        ELSE /\ subscriptions' = Append(subscriptions, item)
                             /\ mon_pc' = "m56"
              ELSE /\ mon_pc' = "m56"
                   /\ UNCHANGED <<subscriptions, mon_log>>
         ELSE IF mtype = 0
         THEN /\ subscriptions' = IF Known(item) THEN Remove(subscriptions, item)
                                  ELSE subscriptions
              /\ IF UnsubNotifies(item)
                 THEN \E fault \in BOOLEAN :
                        /\ mon_log' = Append(mon_log, NotifyEvent("unsub", item))
                        /\ mon_pc' = IF fault THEN "raised" ELSE "m56"
                 ELSE /\ mon_pc' = "m56"
                      /\ UNCHANGED mon_log
         ELSE /\ mon_pc' = "m56"
              /\ UNCHANGED <<subscriptions, mon_log>>
  /\ UNCHANGED <<cfgVars, sockVars, thrVars, sets, mon_socket, m, inbox, arrived>>

\* line 56, and back to line 38
mon_56 ==
  /\ mon_pc = "m56"
  /\ lock' = FALSE
  /\ mon_pc' = "m39"
  /\ UNCHANGED <<cfgVars, zmq_sock, sockets, thrVars, sets,
                 mon_socket, subscriptions, m, inbox, mon_log, arrived>>

\* a step of the monitor's thread
Monitor ==
  \/ mon_39
  \/ mon_42
  \/ mon_44
  \/ mon_45
  \/ mon_46
  \/ mon_56

\* a client that only serves subscribers (a zmq_pub_uri and no zmq_push_uri)
\* and its monitor: a caller's thread, the monitor's thread and the peers run
\* side by side
MonitorInit ==
  /\ ThreadedInit
  /\ XPubChosen
  /\ zmq_push_uri = None
  /\ ~require_subscriptions

MonitorNext ==
  \/ Run(1)
  \/ call_connect_zmq(1)
  \/ threaded_publish(1)
  \/ call_close(1)
  \/ monitor_init
  \/ control_frame
  \/ Monitor

MonitorSpec == MonitorInit /\ [][MonitorNext]_vars

\* ------------------------------------------------------------- claims
\* thread t leaves the line it stands at
Leaves(t, line) == pc[t] = line /\ pc'[t] # line

HandleType == IF zmq_sock = 0 THEN None ELSE sockets[zmq_sock].socket_type

\* C1: when connect_zmq, on a configuration that passes validation and with no
\* socket, reaches its choice and creates without a fault, the socket is XPUB
\* exactly if zmq_pub_uri is set, disable_pub is false and (zmq_push_uri is
\* unset or require_subscriptions is true); else PUSH exactly if zmq_push_uri
\* is set and require_subscriptions is false; else the handle stays None. So it
\* is never XPUB under disable_pub and never PUSH under require_subscriptions.
C1_Archetype ==
  IF zmq_pub_uri # None /\ disable_pub = FALSE
     /\ (zmq_push_uri = None \/ require_subscriptions = TRUE)
  THEN "XPUB"
  ELSE IF zmq_push_uri # None /\ require_subscriptions = FALSE THEN "PUSH"
  ELSE None

C2_Invalid ==
  \/ zmq_push_uri = None /\ zmq_pub_uri = None
  \/ require_subscriptions /\ zmq_pub_uri = None

C3_NoneEligible ==
  /\ ~C2_Invalid
  /\ C1_Archetype = None

C4_DisablePubRaises ==
  \A t \in Threads :
    (/\ sets = 0
     /\ disable_pub /\ zmq_pub_uri # None
     /\ op[t] \in {"init", "publish"} /\ pc[t] = "done")
    => result[t] # "ok"

\* C5: while the handle is set it is changed only by close's line 77, which
\* sets it to None, and the socket it names keeps its type: no step of
\* connect_zmq or publish changes it, whatever the attributes are by then.
C5_ConnectIdempotent ==
  [][zmq_sock # 0
     => /\ \/ zmq_sock' = zmq_sock
           \/ /\ zmq_sock' = 0
              /\ \E t \in Threads : op[t] = "close" /\ Leaves(t, "x77")
        /\ Len(sockets') >= zmq_sock
        /\ sockets'[zmq_sock].socket_type = sockets[zmq_sock].socket_type]_vars

\* C5's case: a connect_zmq (or publish) that created nothing is about to
\* release the lock, and the socket in place is not of the type the attributes
\* would now choose
C5_Witness ==
  \E t \in Threads :
    /\ op[t] \in {"connect_zmq", "publish"}
    /\ pc[t] = "c97"
    /\ events[t] = <<>>
    /\ sets > 0
    /\ zmq_sock # 0
    /\ SocketType # None
    /\ SocketType # HandleType

\* C6: a connect_zmq or publish that ended in a fault of socket creation or of
\* the socket's connect leaves the handle None.
C6_FaultLeavesNoHandle ==
  \A t \in Threads :
    (/\ op[t] \in {"connect_zmq", "publish"}
     /\ pc[t] = "done"
     /\ result[t] \in {"ZMQError:socket", "ZMQError:connect", "TypeError:connect"})
    => zmq_sock = 0

\* C7: in every state reached by threads calling connect_zmq, publish and close
\* concurrently, at most one socket the client created is open, and an open
\* socket is the current handle.
OpenSockets == {i \in 1..Len(sockets) : ~sockets[i].closed}

C7_OneOpenSocket ==
  /\ Cardinality(OpenSockets) <= 1
  /\ OpenSockets \subseteq {zmq_sock}

\* C7's case: one thread has just created the socket and holds the lock while
\* another, past validation, waits for the lock
C7_Witness ==
  \E t, u \in Threads :
    /\ t # u
    /\ pc[t] = "c91" /\ events[t] = <<SocketEvent(zmq_sock)>>
    /\ pc[u] = "c86"
    /\ Cardinality(OpenSockets) = 1

\* tnetstring.loads, to read a sent frame back: the value and what follows it
C8_Colon(s) == CHOOSE i \in 1..Len(s) : s[i] = 58 /\ \A j \in 1..(i - 1) : s[j] # 58

RECURSIVE C8_Number(_)
C8_Number(ds) ==
  IF ds = <<>> THEN 0
  ELSE 10 * C8_Number(SubSeq(ds, 1, Len(ds) - 1)) + (ds[Len(ds)] - 48)

RECURSIVE C8_Parse(_), C8_ParsePairs(_)
C8_Parse(s) ==
  LET c == C8_Colon(s)
      n == C8_Number(SubSeq(s, 1, c - 1))
      payload == SubSeq(s, c + 1, c + n)
  IN [v |-> IF s[c + n + 1] = 125 THEN Dict(C8_ParsePairs(payload)) ELSE Bytes(payload),
      rest |-> SubSeq(s, c + n + 2, Len(s))]

C8_ParsePairs(s) ==
  IF s = <<>> THEN <<>>
  ELSE LET k == C8_Parse(s)
           v == C8_Parse(k.rest)
       IN << <<k.v, v.v>> >> \o C8_ParsePairs(v.rest)

\* the mapping a sequence of <<key, value>> stands for
C8_Mapping(pairs) == {pairs[i] : i \in 1..Len(pairs)}

C8_Keys(pairs) == {pairs[i][1] : i \in 1..Len(pairs)}

\* C8: every message a publish sends is, on a PUSH socket, one frame that
\* decodes to the envelope with the channel field set to the UTF-8 channel and
\* every other field as exported; on an XPUB socket two frames, the UTF-8
\* channel and a frame that decodes to the envelope as exported. A publish
\* sends at most one message.
C8_FramesByArchetype ==
  \A t \in Threads :
    /\ Cardinality({i \in 1..Len(events[t]) : events[t][i].e = "send"}) <= 1
    /\ \A i \in 1..Len(events[t]) :
         events[t][i].e = "send"
         => LET frames == events[t][i].frames
                type == sockets[events[t][i].sock].socket_type
                channel == ensure_utf8(args[t].channel)
                envelope == args[t].item.d
            IN IF type = "PUSH"
               THEN /\ Len(frames) = 1
                    /\ C8_Parse(frames[1]).rest = <<>>
                    /\ LET sent == C8_Parse(frames[1]).v
                       IN /\ sent.kind = "dict"
                          /\ Cardinality(C8_Keys(sent.d)) = Len(sent.d)
                          /\ <<ChannelKey, channel>> \in C8_Mapping(sent.d)
                          /\ {p \in C8_Mapping(sent.d) : p[1] # ChannelKey}
                               = {p \in C8_Mapping(envelope) : p[1] # ChannelKey}
               ELSE /\ Len(frames) = 2
                    /\ frames[1] = channel.b
                    /\ C8_Parse(frames[2]).rest = <<>>
                    /\ C8_Parse(frames[2]).v = Dict(envelope)

\* C8's case: u'\xe9' and {b'id': b'1'} were sent on a PUSH socket as the one
\* frame 24:2:id,1:1,7:channel,2:<c3 a9>,}
C8_Witness ==
  \E t \in Threads :
    /\ pc[t] = "done" /\ result[t] = "ok"
    /\ args[t].channel = Text(<<233>>)
    /\ \E i \in 1..Len(events[t]) :
         /\ events[t][i].e = "send"
         /\ sockets[events[t][i].sock].socket_type = "PUSH"
         /\ events[t][i].frames =
              << <<50, 52, 58,
                   50, 58, 105, 100, 44,
                   49, 58, 49, 44,
                   55, 58, 99, 104, 97, 110, 110, 101, 108, 44,
                   50, 58, 195, 169, 44,
                   125>> >>

\* C9: a publish that returned has called its callback exactly once if it was
\* given one, with (True, ''), as the last thing it did and so after its send,
\* and not at all if it was given none; what it sent depends on the socket type,
\* the channel and the item only, not on blocking.
C9_Sends(t) == SelectSeq(events[t], LAMBDA e : e.e = "send")

C9_Callbacks(t) == SelectSeq(events[t], LAMBDA e : e.e = "callback")

C9_CallbackOnce ==
  \A t \in Threads :
    (op[t] = "publish" /\ pc[t] = "done" /\ result[t] = "ok")
    => /\ C9_Callbacks(t) = IF args[t].callback
                            THEN <<CallbackEvent(TRUE, "")>>
                            ELSE <<>>
       /\ args[t].callback => events[t][Len(events[t])].e = "callback"
       /\ SelectSeq(events[t], LAMBDA e : e.e \in {"send", "callback"})
            = C9_Sends(t) \o C9_Callbacks(t)
       /\ \A i \in 1..Len(C9_Sends(t)) :
            \A blocking \in BOOLEAN :
              C9_Sends(t)[i].frames =
                Frames(sockets[C9_Sends(t)[i].sock].socket_type,
                       [args[t] EXCEPT !.blocking = blocking].item,
                       ensure_utf8([args[t] EXCEPT !.blocking = blocking].channel))

\* C9's case: a blocking publish with a callback has sent and then called back
C9_Witness ==
  \E t \in Threads :
    /\ op[t] = "publish" /\ pc[t] = "done" /\ result[t] = "ok"
    /\ args[t].blocking /\ args[t].callback
    /\ Len(C9_Sends(t)) = 1
    /\ events[t][Len(events[t])] = CallbackEvent(TRUE, "")
    /\ events[t][Len(events[t]) - 1].e = "send"

TransportFaults == {"ZMQError:socket", "ZMQError:connect", "ZMQError:send", "TypeError:connect"}

\* the socket that the call of thread t created, if it begins with creating one
CreatedBy(t) ==
  IF events[t] # <<>> /\ events[t][1].e = "socket" THEN events[t][1].sock ELSE 0

CallerSection == {"c87", "c88", "c91", "c92", "c97", "s112", "s117", "x75", "x77", "x78"}

\* the monitor's lines 45-56
MonitorSection == {"m45", "m46", "m56"}

\* C12: with a monitor built on the client's socket and lock, in every
\* reachable state at most one thread stands between an acquire of the shared
\* lock and its release, so at most one of the send of publish (line 112), the
\* receive of the monitor (line 45), the close of close() (line 75) and the
\* creation of connect_zmq (line 88) is executing, and whoever executes one
\* holds the lock.
C12_MutualExclusion ==
  LET inside == {t \in Threads : pc[t] \in CallerSection}
      monitor == IF mon_pc \in MonitorSection THEN 1 ELSE 0
  IN  /\ Cardinality(inside) + monitor <= 1
      /\ Cardinality(inside) + monitor = 1 => lock

\* C12's case: the monitor holds the lock and is about to receive on the open
\* socket while publish() waits at line 111 to send on the same socket
C12_Witness ==
  /\ mon_pc = "m45"
  /\ lock
  /\ pc[1] = "s111"
  /\ zmq_sock = mon_socket
  /\ ~sockets[mon_socket].closed

\* the channels in the monitor's list
KnownChannels == {subscriptions[i] : i \in 1..Len(subscriptions)}

\* the monitor leaves line 46 having processed the frame m
Processes == mon_pc = "m46" /\ mon_pc' # "m46"

\* C13: for every sequence of control frames, when the monitor processes a
\* subscribe frame it calls callback("sub", channel) exactly if the channel is
\* not in the known subscriptions at that moment, and then adds it; for a
\* channel already there it calls nothing and leaves the list as it is.
C13_SubscribeDeduplicated ==
  [][(Processes /\ Head(m) = 1)
     => IF Tail(m) \in KnownChannels
        THEN /\ mon_log' = mon_log
             /\ subscriptions' = subscriptions
        ELSE /\ mon_log' = Append(mon_log, NotifyEvent("sub", Tail(m)))
             /\ mon_pc' = "m56" => subscriptions' = Append(subscriptions, Tail(m))]_vars

\* C13's case: two subscribe frames for "a" in a row were processed and exactly
\* one callback was called
C13_Witness ==
  /\ mon_pc = "m56"
  /\ mon_log = <<RecvEvent(<<1, 97>>), NotifyEvent("sub", <<97>>), RecvEvent(<<1, 97>>)>>
  /\ subscriptions = <<(<<97>>)>>

\* C14: when the monitor processes an unsubscribe frame it calls
\* callback("unsub", channel) exactly once, whether or not the channel was in
\* the known subscriptions, and the channel is not in them afterwards.
C14_UnsubscribeAlwaysNotified ==
  [][(Processes /\ Head(m) = 0)
     => /\ mon_log' = Append(mon_log, NotifyEvent("unsub", Tail(m)))
        /\ \A i \in 1..Len(subscriptions') : subscriptions'[i] # Tail(m)
        /\ \A c \in KnownChannels \ {Tail(m)} :
             \E i \in 1..Len(subscriptions') : subscriptions'[i] = c]_vars

\* C14's case: an unsubscribe for "a", which nobody had subscribed to, was
\* processed with "b" known, and the callback was called for it
C14_Witness ==
  /\ mon_pc = "m56"
  /\ Len(mon_log) = 4
  /\ mon_log[3] = RecvEvent(<<0, 97>>)
  /\ mon_log[4] = NotifyEvent("unsub", <<97>>)
  /\ subscriptions = <<(<<98>>)>>

\* what the monitor has received, and what it has called back, in order
Received == SelectSeq(mon_log, LAMBDA x : x.e = "recv")

Callbacks == SelectSeq(mon_log, LAMBDA x : x.e = "callback")

\* the callbacks that the frames received call for, one frame after the other,
\* known being the channels subscribed before the first of them
RECURSIVE C15_Expected(_, _)
C15_Expected(frames, known) ==
  IF frames = <<>> THEN <<>>
  ELSE LET mark == Head(frames).item[1]
           channel == Tail(Head(frames).item)
       IN  IF mark = 1
           THEN (IF channel \in known THEN <<>> ELSE <<NotifyEvent("sub", channel)>>)
                \o C15_Expected(Tail(frames), known \cup {channel})
           ELSE <<NotifyEvent("unsub", channel)>>
                \o C15_Expected(Tail(frames), known \ {channel})

\* C15: the monitor processes the frames in the order it received them: the
\* callbacks called so far are, in order, those of the frames received with the
\* subscribes for already known channels left out, and every callback directly
\* follows the receive of its own frame, before the next frame is received.
C15_CallbacksInReceiveOrder ==
  /\ Callbacks = C15_Expected(IF mon_pc = "m46"
                              THEN SubSeq(Received, 1, Len(Received) - 1)
                              ELSE Received, {})
  /\ \A i \in 1..Len(mon_log) :
       mon_log[i].e = "callback"
       => /\ i > 1
          /\ mon_log[i - 1].e = "recv"
          /\ Tail(mon_log[i - 1].item) = mon_log[i].item
          /\ mon_log[i].kind = IF mon_log[i - 1].item[1] = 1 THEN "sub" ELSE "unsub"

\* C15's case: subscribe, unsubscribe and subscribe for "a" were received and
\* called back one after the other
C15_Witness ==
  mon_log = <<RecvEvent(<<1, 97>>), NotifyEvent("sub", <<97>>),
              RecvEvent(<<0, 97>>), NotifyEvent("unsub", <<97>>),
              RecvEvent(<<1, 97>>), NotifyEvent("sub", <<97>>)>>

\* the monitor's thread is running and its socket has been closed
MonitorOutlivesSocket ==
  /\ mon_pc \notin MonitorEnded \cup {"none"}
  /\ sockets[mon_socket].closed

\* the lock is held and no thread is left between an acquire and its release
LockLeftHeld ==
  /\ lock
  /\ mon_pc \notin MonitorSection
  /\ \A t \in Threads : pc[t] \notin CallerSection

\* C16 as stated: the monitor returns only once its socket is closed, and once
\* the socket is closed the monitor goes on to its end, so it never waits at
\* line 44, its socket closed, for a lock that nobody is left to release.
C16_MonitorStopsOnceClosed ==
  /\ mon_pc = "returned" => sockets[mon_socket].closed
  /\ MonitorOutlivesSocket => ~(mon_pc = "m44" /\ LockLeftHeld)

\* the channels whose most recent frame received is a subscribe
C17_Subscribed ==
  {c \in SubChannels :
     \E i \in 1..Len(Received) :
       /\ Received[i].item = <<1>> \o c
       /\ \A j \in (i + 1)..Len(Received) : Tail(Received[j].item) # c}

\* C17: the known subscriptions hold no channel twice, are empty before the
\* first frame is received, and between frames (from the end of one frame's
\* processing to the receive of the next) hold exactly the channels whose most
\* recent frame received is a subscribe.
C17_KnownSubscriptions ==
  /\ \A i, j \in 1..Len(subscriptions) : i # j => subscriptions[i] # subscriptions[j]
  /\ Received = <<>> => subscriptions = <<>>
  /\ mon_pc \in {"m39", "m42", "m44", "m45", "m56", "returned"}
     => KnownChannels = C17_Subscribed

\* C17's case: after subscribes for "a" and "b" and an unsubscribe for "a" the
\* monitor, back at the top of its loop, knows "b" alone
C17_Witness ==
  /\ mon_pc = "m39"
  /\ Len(Received) = 3
  /\ Received[1].item = <<1, 97>>
  /\ Received[2].item = <<1, 98>>
  /\ Received[3].item = <<0, 97>>
  /\ subscriptions = <<(<<98>>)>>

\* C18 as stated: the shared lock is never left held: once connect_zmq(),
\* publish(), close() or an iteration of the monitor's loop has finished, by
\* returning or by a fault, the lock is free for the next one to acquire.
C18_LockNeverLeftHeld == client = "ready" => ~LockLeftHeld

\* C19 as stated: however publish() in one thread and close() in another
\* interleave, the send of line 112 never runs without an open socket in the
\* handle, and publish() never ends with the fault of a handle that is None.
C19_SendHasOpenSocket ==
  \A t \in Threads :
    /\ pc[t] = "s112" => (zmq_sock # 0 /\ ~sockets[zmq_sock].closed)
    /\ op[t] = "publish" => result[t] # "AttributeError"

\* C20 as stated: however the monitor's loop and close() interleave, the
\* monitor never comes to receive at line 45 on a socket that is closed: closed
\* between the poll and the acquire, the monitor leaves instead of receiving.
C20_NoReceiveOnClosedSocket ==
  mon_pc = "m45" => ~sockets[mon_socket].closed

====
